---- MODULE Spec2Model ----
(***************************************************************************)
(* Model of native/download.py: download (the fetcher), retrieve_natives   *)
(* (the batch orchestrator) and main (the CLI).                            *)
(*                                                                         *)
(* Strings are sequences of one-character strings, so that the regular     *)
(* expression, upper() and strip() are computed character by character.    *)
(* A file name is the sequence of the characters of its stem followed by   *)
(* one token for its suffix (".pdb" or ".pdb.part").  The file system is   *)
(* the output directory: a function from the names present to contents,    *)
(* compared byte for byte (a case-sensitive file system).                  *)
(***************************************************************************)
EXTENDS Naturals, Sequences, FiniteSets, TLC

VARIABLES
    pc,         \* position of the program
    top,        \* entry point of the running call: "download" or "main"
    calls,      \* number of top-level calls finished so far
    dirExists,  \* does the output directory exist
    fs,         \* files of the output directory: name -> content
    pdb_id,     \* download: the parameter / local pdb_id
    resp,       \* download: the open HTTP response (its body), or NoResp
    nreq,       \* HTTP GET requests issued since the start
    reqs,       \* HTTP GET requests issued by the running download call
    url,        \* URL of the last HTTP GET
    exc,        \* the exception that ended the running top-level call
    ret,        \* return value of the last download call
    input,      \* retrieve_natives: the parameter input
    pdb_ids,    \* retrieve_natives: local pdb_ids
    ids,        \* retrieve_natives: local ids (meaningful when idsBound)
    idsBound,   \* retrieve_natives: is the local ids assigned
    i,          \* retrieve_natives: entries of zip(pdb_ids, ids) finished
    rret,       \* return value of retrieve_natives
    copied,     \* main: has shutil.copy2 of the input table been done
    log,        \* calls made by the running retrieve_natives, in order
    fsPre,      \* fs when the running download call started
    dirPre      \* dirExists when the running download call started

vars == <<pc, top, calls, dirExists, fs, pdb_id, resp, nreq, reqs, url, exc,
          ret, input, pdb_ids, ids, idsBound, i, rret, copied, log, fsPre,
          dirPre>>

dlVars == <<pdb_id, resp, reqs, url, ret, fsPre, dirPre>>
rtVars == <<input, pdb_ids, ids, idsBound, i, rret, copied, log>>

----------------------------------------------------------------------------
(* Bounds *)

MaxCalls == 3     \* top-level calls in one behaviour
MaxRows == 2      \* rows of an input table
BodyLen == 2      \* chunks of a response body

----------------------------------------------------------------------------
(* Characters and strings *)

Digits == {"0", "1", "2", "3", "4", "5", "6", "7", "8", "9"}

LowerSeq == <<"a", "b", "c", "d", "e", "f", "g", "h", "i", "j", "k", "l", "m",
              "n", "o", "p", "q", "r", "s", "t", "u", "v", "w", "x", "y", "z">>

UpperSeq == <<"A", "B", "C", "D", "E", "F", "G", "H", "I", "J", "K", "L", "M",
              "N", "O", "P", "Q", "R", "S", "T", "U", "V", "W", "X", "Y", "Z">>

Range(s) == {s[k] : k \in DOMAIN s}

\* the character class [0-9A-Za-z]
IsAlnum(ch) == ch \in Digits \cup Range(LowerSeq) \cup Range(UpperSeq)

\* str.upper() on one character
UpperChar(ch) ==
    IF ch \in Range(LowerSeq)
    THEN UpperSeq[CHOOSE k \in DOMAIN LowerSeq : LowerSeq[k] = ch]
    ELSE ch

\* str.upper()
Upper(s) == [k \in DOMAIN s |-> UpperChar(s[k])]

IsSpace(ch) == ch \in {" ", "\t", "\n"}

RECURSIVE LStrip(_)
LStrip(s) == IF s # <<>> /\ IsSpace(Head(s)) THEN LStrip(Tail(s)) ELSE s

RECURSIVE RStrip(_)
RStrip(s) ==
    IF s # <<>> /\ IsSpace(s[Len(s)]) THEN RStrip(SubSeq(s, 1, Len(s) - 1)) ELSE s

\* str.strip()
Strip(s) == RStrip(LStrip(s))

\* Python's None, and a missing cell of the table (pandas NaN, printed "nan")
NoneVal == <<"None">>
NaN == <<"nan">>

\* pdb_id or ""
OrEmpty(s) == IF s = NoneVal THEN <<>> ELSE s

\* re.match would accept any string that starts with four alphanumerics
PrefixMatch(s) == Len(s) >= 4 /\ \A k \in 1..4 : IsAlnum(s[k])

\* re.fullmatch(r"[0-9A-Za-z]{4}", s)
FullMatch(s) == Len(s) = 4 /\ \A k \in 1..4 : IsAlnum(s[k])

----------------------------------------------------------------------------
(* Paths of the output directory *)

\* out_dir / f"{name}.pdb"
PdbName(name) == Append(name, ".pdb")

\* Path.with_suffix: the last suffix is replaced
WithSuffix(path, suffix) == Append(SubSeq(path, 1, Len(path) - 1), suffix)

\* a download that streams straight into the final file
TmpInPlace(target) == target

\* tmp = target.with_suffix(".pdb.part")
TmpOf(target) == WithSuffix(target, ".pdb.part")

Target == PdbName(pdb_id)
Tmp == TmpOf(Target)

\* f"https://files.rcsb.org/download/{pdb_id}.pdb"
UrlOf(code) == <<"https://files.rcsb.org/download/">> \o code \o <<".pdb">>

----------------------------------------------------------------------------
(* File contents and file-system primitives *)

NoResp == [code |-> <<>>, req |-> 0]

\* the first n chunks of the body answered to request req for code
Content(body, n) == [code |-> body.code, req |-> body.req, n |-> n]

Exists(f, path) == path \in DOMAIN f

WriteFile(f, path, c) ==
    [p \in DOMAIN f \cup {path} |-> IF p = path THEN c ELSE f[p]]

\* os.rename / Path.replace of an existing file: dst is replaced atomically
Rename(f, src, dst) ==
    IF src = dst THEN f
    ELSE [p \in (DOMAIN f \ {src}) \cup {dst} |-> IF p = dst THEN f[src] ELSE f[p]]

EmptyFs == [p \in {} |-> NoResp]

----------------------------------------------------------------------------
(* Exceptions *)

NoExc == [type |-> "none", status |-> 0, at |-> "none"]
Exc(type, status, at) == [type |-> type, status |-> status, at |-> at]

\* HTTP error statuses the server may answer, and the other outcomes of urlopen
ErrorStatuses == {404, 500}

----------------------------------------------------------------------------
(* Inputs *)

Str1CRN == <<"1", "C", "R", "N">>
Str1crn == <<"1", "c", "r", "n">>
Str4HHB == <<"4", "H", "H", "B">>

\* arguments of direct calls of download
DirectCodes ==
    { Str1CRN, Str1crn, Str4HHB, <<>>, NoneVal, <<"1", "C", "R">>,
      <<"1", "C", "R", "N", "5">>, <<"1", "C", "R", "!">>, <<"1", "C", "R", "N", "\n">> }

\* cells of the pdb_id column and of the id column
RowCodes == { NaN, Str1CRN, Str1crn, Str4HHB, <<"1", "C", "R">> }
RowIds == { <<"s", "1">>, Str1crn, Str1CRN, Str4HHB }

Rows == [pdb_id : RowCodes, id : RowIds]

SeqsUpTo(S, n) == UNION { [1..m -> S] : m \in 0..n }

\* a table without an id column has rows whose id cell is never read
Tables ==
    { [isCsv |-> TRUE, hasId |-> TRUE, text |-> <<>>, rows |-> rs] :
        rs \in SeqsUpTo(Rows, MaxRows) }
    \cup
    { [isCsv |-> TRUE, hasId |-> FALSE, text |-> <<>>, rows |-> rs] :
        rs \in SeqsUpTo([pdb_id : RowCodes, id : {<<>>}], MaxRows) }

\* inputs that are not the path of an existing .csv file
Literals ==
    { [isCsv |-> FALSE, hasId |-> FALSE, text |-> t, rows |-> <<>>] :
        t \in { Str1CRN, <<" ">> \o Str1CRN \o <<"\n">>, Str1crn, <<"1", "C", "R">> } }

Inputs == Tables \cup Literals

NoInput == [isCsv |-> FALSE, hasId |-> FALSE, text |-> <<>>, rows |-> <<>>]

----------------------------------------------------------------------------
(* Initial states *)

\* the frames of download and retrieve_natives before any call
FreshFrames ==
    /\ pc = "idle"
    /\ top = "none"
    /\ calls = 0
    /\ pdb_id = <<>>
    /\ resp = NoResp
    /\ reqs = 0
    /\ url = <<>>
    /\ exc = NoExc
    /\ ret = <<>>
    /\ input = NoInput
    /\ pdb_ids = <<>>
    /\ ids = <<>>
    /\ idsBound = FALSE
    /\ i = 0
    /\ rret = "none"
    /\ copied = FALSE
    /\ log = <<>>
    /\ fsPre = EmptyFs
    /\ dirPre = FALSE

\* nothing has run: the output directory does not exist
Init ==
    /\ FreshFrames
    /\ dirExists = FALSE
    /\ fs = EmptyFs
    /\ nreq = 0

\* output directories left by one earlier run: by download("1CRN"), and by
\* main over the table id,pdb_id / 1crn,4HHB
PriorDirs ==
    { WriteFile(EmptyFs, PdbName(Str1CRN), Content([code |-> Str1CRN, req |-> 1], BodyLen)),
      WriteFile(EmptyFs, PdbName(Str1crn), Content([code |-> Str4HHB, req |-> 1], BodyLen)) }

\* the CLI starts on a directory that does not exist or that an earlier run left
InitBatch ==
    /\ FreshFrames
    /\ \/ dirExists = FALSE /\ fs = EmptyFs /\ nreq = 0
       \/ dirExists = TRUE /\ fs \in PriorDirs /\ nreq = 1

----------------------------------------------------------------------------
(* Control transfer *)

\* an exception in download is swallowed by the batch, which goes on
RaiseAndContinue(e) ==
    IF top = "main" /\ pc \in {"d_check", "d_urlopen", "d_copy"}
    THEN pc' = "r_loop" /\ exc' = e /\ i' = i + 1
    ELSE pc' = "done" /\ exc' = e /\ i' = i

\* no handler up to the process boundary: the exception ends the call
Raise(e) == pc' = "done" /\ exc' = e /\ i' = i

\* download was entered: its frame is fresh and the state before it is kept
EnterDownload(code) ==
    /\ pdb_id' = code
    /\ resp' = NoResp
    /\ reqs' = 0
    /\ ret' = <<>>
    /\ fsPre' = fs
    /\ dirPre' = dirExists

\* where download returns to
AfterDownload == IF top = "main" THEN "r_move" ELSE "done"

----------------------------------------------------------------------------
(* download(pdb_id, out_dir) *)

\* a direct call download(code, out_dir)
StartDownload ==
    /\ pc = "idle"
    /\ calls < MaxCalls
    /\ \E code \in DirectCodes : EnterDownload(code)
    /\ pc' = "d_check"
    /\ top' = "download"
    /\ exc' = NoExc
    /\ UNCHANGED <<calls, dirExists, fs, nreq, url>>
    /\ UNCHANGED rtVars

\* the check of line 21 with re.match in place of re.fullmatch
ValidPrefix(s) == PrefixMatch(OrEmpty(s))

\* line 21: re.fullmatch(r"[0-9A-Za-z]{4}", pdb_id or "")
Valid(s) == FullMatch(OrEmpty(s))

\* lines 21-22
DownloadCheck ==
    /\ pc = "d_check"
    /\ IF Valid(pdb_id)
       THEN pc' = "d_mkdir" /\ UNCHANGED <<exc, i>>
       ELSE Raise(Exc("ValueError", 0, "download"))
    /\ UNCHANGED <<top, calls, dirExists, fs, nreq>>
    /\ UNCHANGED dlVars
    /\ UNCHANGED <<input, pdb_ids, ids, idsBound, rret, copied, log>>

\* line 24: pdb_id = pdb_id.upper()
NormalizeUpper(s) == Upper(s)

\* lines 24-33
DownloadMkdir ==
    /\ pc = "d_mkdir"
    /\ pdb_id' = NormalizeUpper(pdb_id)
    /\ dirExists' = TRUE
    /\ pc' = "d_urlopen"
    /\ UNCHANGED <<top, calls, fs, resp, nreq, reqs, url, exc, ret, fsPre, dirPre>>
    /\ UNCHANGED rtVars

\* a 404 is re-raised like every other HTTP error
MapHttpErrorPlain(status) == Exc("HTTPError", status, "download")

\* lines 40-43: except urllib.error.HTTPError
MapHttpError(status) ==
    IF status = 404
    THEN Exc("FileNotFoundError", status, "download")
    ELSE Exc("HTTPError", status, "download")

\* line 36, urllib.request.urlopen(url): one GET, answered by a body, by an
\* HTTP error status, or not at all (URLError)
DownloadUrlopen ==
    /\ pc = "d_urlopen"
    /\ nreq' = nreq + 1
    /\ reqs' = reqs + 1
    /\ url' = UrlOf(pdb_id)
    /\ \/ /\ resp' = [code |-> pdb_id, req |-> nreq + 1]
          /\ pc' = "d_open"
          /\ UNCHANGED <<exc, i>>
       \/ /\ \E status \in ErrorStatuses : Raise(MapHttpError(status))
          /\ UNCHANGED resp
       \/ /\ Raise(Exc("URLError", 0, "download"))
          /\ UNCHANGED resp
    /\ UNCHANGED <<top, calls, dirExists, fs, pdb_id, ret, fsPre, dirPre>>
    /\ UNCHANGED <<input, pdb_ids, ids, idsBound, rret, copied, log>>

\* line 36, open(tmp, "wb"): the temporary file is created or truncated
DownloadOpen ==
    /\ pc = "d_open"
    /\ fs' = WriteFile(fs, Tmp, Content(resp, 0))
    /\ pc' = "d_copy"
    /\ UNCHANGED <<top, calls, dirExists, nreq, exc>>
    /\ UNCHANGED dlVars
    /\ UNCHANGED rtVars

\* line 37, shutil.copyfileobj: one more chunk reaches the temporary file
DownloadCopy ==
    /\ pc = "d_copy"
    /\ fs[Tmp].n < BodyLen
    /\ fs' = WriteFile(fs, Tmp, Content(resp, fs[Tmp].n + 1))
    /\ pc' = IF fs[Tmp].n + 1 = BodyLen THEN "d_replace" ELSE "d_copy"
    /\ UNCHANGED <<top, calls, dirExists, nreq, exc>>
    /\ UNCHANGED dlVars
    /\ UNCHANGED rtVars

\* the rename done in a finally clause: it runs after a failed transfer too
DownloadInterruptReplace ==
    /\ pc = "d_copy"
    /\ Raise(Exc("StreamError", 0, "download"))
    /\ fs' = Rename(fs, Tmp, Target)
    /\ UNCHANGED <<top, calls, dirExists, nreq>>
    /\ UNCHANGED dlVars
    /\ UNCHANGED <<input, pdb_ids, ids, idsBound, rret, copied, log>>

\* line 37: the transfer is interrupted mid-stream, copyfileobj raises; the
\* exception is no HTTPError, so lines 40-43 do not handle it, and line 38
\* is not reached
DownloadInterrupt ==
    /\ pc = "d_copy"
    /\ Raise(Exc("StreamError", 0, "download"))
    /\ UNCHANGED <<top, calls, dirExists, fs, nreq>>
    /\ UNCHANGED dlVars
    /\ UNCHANGED <<input, pdb_ids, ids, idsBound, rret, copied, log>>

\* the function ends after line 38 without a return statement
ReturnValue == NoneVal

\* line 38, tmp.replace(target), and the return
DownloadReplace ==
    /\ pc = "d_replace"
    /\ fs' = Rename(fs, Tmp, Target)
    /\ ret' = ReturnValue
    /\ pc' = AfterDownload
    /\ UNCHANGED <<top, calls, dirExists, pdb_id, resp, nreq, reqs, url, exc,
                   fsPre, dirPre>>
    /\ UNCHANGED rtVars

\* the caller has the result of a direct call; the next call may start
Finish ==
    /\ pc = "done"
    /\ pc' = "idle"
    /\ calls' = calls + 1
    /\ UNCHANGED <<top, dirExists, fs, nreq, exc>>
    /\ UNCHANGED dlVars
    /\ UNCHANGED rtVars

----------------------------------------------------------------------------
(* retrieve_natives(input, outdir) and main() *)

\* lines 112-115: main calls retrieve_natives(args.input, output_dir)
StartMain ==
    /\ pc = "idle"
    /\ calls < MaxCalls
    /\ \E inp \in Inputs : input' = inp
    /\ pc' = "r_mkdir"
    /\ top' = "main"
    /\ exc' = NoExc
    /\ pdb_ids' = <<>>
    /\ ids' = <<>>
    /\ idsBound' = FALSE
    /\ i' = 0
    /\ rret' = "none"
    /\ copied' = FALSE
    /\ log' = <<>>
    /\ UNCHANGED <<calls, dirExists, fs, nreq>>
    /\ UNCHANGED dlVars

\* lines 58-59
RetrieveMkdir ==
    /\ pc = "r_mkdir"
    /\ dirExists' = TRUE
    /\ pc' = "r_dispatch"
    /\ UNCHANGED <<top, calls, fs, nreq, exc>>
    /\ UNCHANGED dlVars
    /\ UNCHANGED rtVars

HasPdbId(row) == row.pdb_id # NaN

\* line 64: df.dropna(subset=["pdb_id"], inplace=True)
DropNa(rows) == SelectSeq(rows, HasPdbId)

\* line 65: df["pdb_id"].tolist()
PdbIdsOf(df) == [k \in DOMAIN df |-> df[k].pdb_id]

\* the id column read before the rows without pdb_id are dropped
IdsOfUndropped(inp, df) ==
    IF inp.hasId
    THEN [k \in DOMAIN inp.rows |-> inp.rows[k].id]
    ELSE [k \in DOMAIN df |-> df[k].pdb_id]

\* lines 66-70: df["id"].tolist(), the id column being pdb_id when absent
IdsOf(inp, df) ==
    IF inp.hasId
    THEN [k \in DOMAIN df |-> df[k].id]
    ELSE [k \in DOMAIN df |-> df[k].pdb_id]

\* lines 61-73: the else branch assigns pdb_ids and leaves ids unassigned
RetrieveDispatch ==
    /\ pc = "r_dispatch"
    /\ IF input.isCsv
       THEN /\ pdb_ids' = PdbIdsOf(DropNa(input.rows))
            /\ ids' = IdsOf(input, DropNa(input.rows))
            /\ idsBound' = TRUE
       ELSE /\ pdb_ids' = <<Strip(input.text)>>
            /\ UNCHANGED <<ids, idsBound>>
    /\ pc' = "r_loop"
    /\ UNCHANGED <<top, calls, dirExists, fs, nreq, exc>>
    /\ UNCHANGED dlVars
    /\ UNCHANGED <<input, i, rret, copied, log>>

Min(a, b) == IF a <= b THEN a ELSE b

\* zip(pdb_ids, ids) stops with the shorter list
ZipLen == Min(Len(pdb_ids), Len(ids))

LogEntry(op) == [op |-> op, pdb_id |-> pdb_ids[i + 1], id |-> ids[i + 1]]

\* lines 75-76: the next pair of zip(pdb_ids, ids), and the call of download;
\* reading the unassigned local ids raises UnboundLocalError
RetrieveLoop ==
    /\ pc = "r_loop"
    /\ IF ~idsBound
       THEN /\ Raise(Exc("UnboundLocalError", 0, "retrieve"))
            /\ UNCHANGED log
            /\ UNCHANGED dlVars
       ELSE IF i < ZipLen
       THEN /\ EnterDownload(pdb_ids[i + 1])
            /\ log' = Append(log, LogEntry("fetch"))
            /\ pc' = "d_check"
            /\ UNCHANGED <<exc, i, url>>
       ELSE /\ pc' = "r_return"
            /\ UNCHANGED <<exc, i, log>>
            /\ UNCHANGED dlVars
    /\ UNCHANGED <<top, calls, dirExists, fs, nreq>>
    /\ UNCHANGED <<input, pdb_ids, ids, idsBound, rret, copied>>

\* line 78: outdir / f"{pdb_id}.pdb", pdb_id being the cell of the table
MoveSrc(name) == PdbName(name)

\* the destination named after the accession code instead of the id
MoveDstCode(code, id) == PdbName(code)

\* line 79: outdir / f"{id}.pdb"
MoveDst(code, id) == PdbName(id)

\* lines 77-80, shutil.move: a missing source raises FileNotFoundError
RetrieveMove ==
    /\ pc = "r_move"
    /\ IF Exists(fs, MoveSrc(pdb_ids[i + 1]))
       THEN /\ fs' = Rename(fs, MoveSrc(pdb_ids[i + 1]), MoveDst(pdb_ids[i + 1], ids[i + 1]))
            /\ log' = Append(log, LogEntry("move"))
            /\ i' = i + 1
            /\ pc' = "r_loop"
            /\ UNCHANGED exc
       ELSE /\ Raise(Exc("FileNotFoundError", 0, "move"))
            /\ UNCHANGED <<fs, log>>
    /\ UNCHANGED <<top, calls, dirExists, nreq>>
    /\ UNCHANGED dlVars
    /\ UNCHANGED <<input, pdb_ids, ids, idsBound, rret, copied>>

\* line 81: return outdir
RetrieveReturn ==
    /\ pc = "r_return"
    /\ rret' = "outdir"
    /\ pc' = "m_copy"
    /\ UNCHANGED <<top, calls, dirExists, fs, nreq, exc>>
    /\ UNCHANGED dlVars
    /\ UNCHANGED <<input, pdb_ids, ids, idsBound, i, copied, log>>

\* line 116: shutil.copy2(args.input, output_dir / Path(args.input).name)
MainCopy ==
    /\ pc = "m_copy"
    /\ copied' = TRUE
    /\ pc' = "done"
    /\ UNCHANGED <<top, calls, dirExists, fs, nreq, exc>>
    /\ UNCHANGED dlVars
    /\ UNCHANGED <<input, pdb_ids, ids, idsBound, i, rret, log>>

----------------------------------------------------------------------------
(* Specification *)

DownloadSteps ==
    \/ DownloadCheck
    \/ DownloadMkdir
    \/ DownloadUrlopen
    \/ DownloadOpen
    \/ DownloadCopy
    \/ DownloadInterrupt
    \/ DownloadReplace

\* the library function called directly, time after time
NextFetch ==
    \/ StartDownload
    \/ DownloadSteps
    \/ Finish

\* one run of the command line program
NextBatch ==
    \/ StartMain
    \/ RetrieveMkdir
    \/ RetrieveDispatch
    \/ RetrieveLoop
    \/ DownloadSteps
    \/ RetrieveMove
    \/ RetrieveReturn
    \/ MainCopy

Next == NextFetch \/ NextBatch

Spec == Init /\ [][Next]_vars

SpecFetch == Init /\ [][NextFetch]_vars

SpecBatch == InitBatch /\ [][NextBatch]_vars

----------------------------------------------------------------------------
(* Vocabulary of the properties, stated without the operators of the model *)

AlnumChars ==
    { "0", "1", "2", "3", "4", "5", "6", "7", "8", "9",
      "a", "b", "c", "d", "e", "f", "g", "h", "i", "j", "k", "l", "m",
      "n", "o", "p", "q", "r", "s", "t", "u", "v", "w", "x", "y", "z",
      "A", "B", "C", "D", "E", "F", "G", "H", "I", "J", "K", "L", "M",
      "N", "O", "P", "Q", "R", "S", "T", "U", "V", "W", "X", "Y", "Z" }

\* s does not match [0-9A-Za-z]{4}
Malformed(s) == s = NoneVal \/ Len(s) # 4 \/ \E k \in DOMAIN s : s[k] \notin AlnumChars

IsUpperCase(s) == \A k \in DOMAIN s : s[k] \notin Range(LowerSeq)

\* path is a temporary file of download
IsPart(path) == path # <<>> /\ path[Len(path)] = ".pdb.part"

\* a direct call of download is running or has just ended
InFetch == top = "download" /\ pc # "idle"

\* the final path of the running download call, and its temporary file
FinalPath == Append(Upper(pdb_id), ".pdb")
PartPath == Append(Upper(pdb_id), ".pdb.part")

SameAt(f, g, path) ==
    /\ (path \in DOMAIN f) = (path \in DOMAIN g)
    /\ path \in DOMAIN f => f[path] = g[path]

\* the entries of a table: the rows that have a pdb_id, each with its own id
RECURSIVE Entries(_, _)
Entries(rows, hasId) ==
    IF rows = <<>> THEN <<>>
    ELSE IF Head(rows).pdb_id = NaN THEN Entries(Tail(rows), hasId)
    ELSE <<[pdb_id |-> Head(rows).pdb_id,
            id |-> IF hasId THEN Head(rows).id ELSE Head(rows).pdb_id]>>
         \o Entries(Tail(rows), hasId)

TableEntries == Entries(input.rows, input.hasId)

\* fetch 1, rename 1, fetch 2, rename 2, ...
ExpectedLog(es) ==
    [k \in 1..(2 * Len(es)) |->
        [op |-> IF k % 2 = 1 THEN "fetch" ELSE "move",
         pdb_id |-> es[(k + 1) \div 2].pdb_id,
         id |-> es[(k + 1) \div 2].id]]

IsPrefix(s, t) == Len(s) <= Len(t) /\ \A k \in 1..Len(s) : s[k] = t[k]

DistinctIds(es) == \A j, k \in DOMAIN es : j # k => es[j].id # es[k].id

\* main over a table ended without an exception
BatchCompleted == top = "main" /\ input.isCsv /\ pc = "done" /\ exc = NoExc

\* row k's file holds the whole body of the GET made for row k
HoldsBodyOfRow(es, k) ==
    /\ Append(es[k].id, ".pdb") \in DOMAIN fs
    /\ fs[Append(es[k].id, ".pdb")] =
         [code |-> Upper(es[k].pdb_id), req |-> nreq - Len(es) + k, n |-> BodyLen]

----------------------------------------------------------------------------
(* Properties *)

\* C1: at every step of a download call, failing or not, the final path
\* <CODE>.pdb is absent, or holds the content it had before the call, or holds
\* the whole response body; files that are not whole are .pdb.part files, and
\* no file but the final path and its .pdb.part file changes.
C1_FinalPathNeverPartial ==
    InFetch =>
        /\ \A p \in DOMAIN fs : fs[p].n < BodyLen => IsPart(p)
        /\ \/ FinalPath \notin DOMAIN fs
           \/ FinalPath \in DOMAIN fsPre /\ fs[FinalPath] = fsPre[FinalPath]
           \/ resp # NoResp /\ fs[FinalPath] = [code |-> resp.code, req |-> resp.req, n |-> BodyLen]
        /\ \A p \in (DOMAIN fs \cup DOMAIN fsPre) \ {FinalPath, PartPath} :
               SameAt(fs, fsPre, p)

\* C1 witness: mid-transfer, the .pdb.part file holds a part of the new body
\* while the final path still holds the body of an earlier call.
C1_Witness ==
    /\ InFetch
    /\ pc = "d_copy"
    /\ PartPath \in DOMAIN fs
    /\ fs[PartPath].n = 1
    /\ FinalPath \in DOMAIN fs
    /\ fs[FinalPath].req < resp.req

\* C2 as claimed: after a transfer interrupted mid-stream no file exists at
\* the final path, whatever the directory held before the call.
C2_NoFinalFileAfterInterrupt ==
    (InFetch /\ pc = "done" /\ exc.type = "StreamError") => FinalPath \notin DOMAIN fs

\* C2 amended: after a transfer interrupted mid-stream the final path is as it
\* was before the call (absent if it was absent, else its earlier whole
\* content), and only the .pdb.part file was created or changed.
C2_FinalPathUntouchedAfterInterrupt ==
    (InFetch /\ pc = "done" /\ exc.type = "StreamError") =>
        /\ \A p \in (DOMAIN fs \cup DOMAIN fsPre) \ {PartPath} : SameAt(fs, fsPre, p)
        /\ FinalPath \in DOMAIN fs => fs[FinalPath].n = BodyLen
        /\ PartPath \in DOMAIN fs
        /\ fs[PartPath].n < BodyLen

\* C2 witness: an interrupted transfer in a directory that an earlier
\* successful fetch of the same code left its file in.
C2_Witness ==
    /\ InFetch
    /\ pc = "done"
    /\ exc.type = "StreamError"
    /\ FinalPath \in DOMAIN fs
    /\ fs[PartPath].n = 1

\* C3: for a code that does not match [0-9A-Za-z]{4} (the empty string and
\* None included) download ends with ValueError at its first step, having
\* issued no GET, not created the directory and changed no file.
C3_MalformedRejectedBeforeIO ==
    (InFetch /\ Malformed(pdb_id)) =>
        /\ pc \in {"d_check", "done"}
        /\ pc = "done" => exc.type = "ValueError"
        /\ reqs = 0
        /\ dirExists = dirPre
        /\ fs = fsPre

\* C3 witness: None was rejected and the directory still does not exist.
C3_Witness ==
    /\ InFetch
    /\ pc = "done"
    /\ pdb_id = NoneVal
    /\ exc.type = "ValueError"
    /\ ~dirExists

\* C4: for a well-formed code download issues one GET and no more; a 404 ends
\* it with FileNotFoundError, every other HTTP error status, a transport
\* failure and an interrupted transfer end it with another exception that
\* carries the status; after a failure the final path is as before the call.
C4_OneGetAndErrorMapping ==
    (InFetch /\ ~Malformed(pdb_id)) =>
        /\ reqs <= 1
        /\ pc = "done" =>
             /\ reqs = 1
             /\ exc.type = "FileNotFoundError" <=> exc.status = 404
             /\ exc # NoExc /\ exc.status # 404 =>
                    /\ exc.type \in {"HTTPError", "URLError", "StreamError"}
                    /\ exc.type = "HTTPError" <=> exc.status \in ErrorStatuses
             /\ exc # NoExc => SameAt(fs, fsPre, FinalPath)

\* C4 witness: a 404 for a code whose file an earlier call had left in place.
C4_Witness ==
    /\ InFetch
    /\ pc = "done"
    /\ exc.type = "FileNotFoundError"
    /\ exc.status = 404
    /\ reqs = 1
    /\ FinalPath \in DOMAIN fs

\* C5 as claimed: for an input that is no table, retrieve_natives makes one
\* entry of the trimmed input, fetches once, leaves <trimmed input>.pdb in
\* place and returns the output directory (stated for trimmed inputs that are
\* well-formed upper-case codes, and runs in which the fetch did not fail).
C5_LiteralInputFetchedOnce ==
    (top = "main" /\ pc = "done" /\ ~input.isCsv /\ exc.at # "download"
        /\ ~Malformed(Strip(input.text)) /\ IsUpperCase(Strip(input.text))) =>
        /\ exc = NoExc
        /\ rret = "outdir"
        /\ Len(log) = 2
        /\ Append(Strip(input.text), ".pdb") \in DOMAIN fs
        /\ fs[Append(Strip(input.text), ".pdb")].n = BodyLen

\* C6 as claimed: a successful download returns the final path, and that
\* path holds the whole response body.
C6_ReturnsFinalPath ==
    (InFetch /\ pc = "done" /\ exc = NoExc) =>
        /\ ret = FinalPath
        /\ FinalPath \in DOMAIN fs
        /\ fs[FinalPath] = [code |-> resp.code, req |-> resp.req, n |-> BodyLen]

TakenByLaterRow(es, k) ==
    \E j \in DOMAIN es : j > k /\ es[k].id \in {es[j].pdb_id, Upper(es[j].pdb_id)}

C8_FetchFailureAbortsBatch ==
    (top = "main" /\ exc.at = "download") =>
        /\ pc = "done"
        /\ rret = "none"
        /\ ~copied
        /\ i < Len(TableEntries)
        /\ log = SubSeq(ExpectedLog(TableEntries), 1, 2 * i + 1)
        /\ \A p \in (DOMAIN fs \cup DOMAIN fsPre) \ {PartPath} : SameAt(fs, fsPre, p)
        /\ \A k \in 1..i :
              ~(\E j \in 1..i : j > k /\ TableEntries[k].id \in
                    {TableEntries[j].pdb_id, Upper(TableEntries[j].pdb_id)})
              => Append(TableEntries[k].id, ".pdb") \in DOMAIN fs

\* C8 witness: the fetch of the second entry failed mid-transfer, the first
\* entry's file is in place.
C8_Witness ==
    /\ top = "main"
    /\ pc = "done"
    /\ exc.type = "StreamError"
    /\ i = 1
    /\ Len(TableEntries) = 2
    /\ Append(TableEntries[1].id, ".pdb") \in DOMAIN fs
    /\ ~copied

\* C9: over a table, the calls made are fetch 1, rename 1, fetch 2, rename 2,
\* ... over the rows that have a pdb_id, in table order, each with the id of
\* its own row, one GET at most per fetch; a run that returns made them all.
C9_OneFetchPerRowInOrder ==
    (top = "main" /\ input.isCsv /\ pc \notin {"r_mkdir", "r_dispatch"}) =>
        /\ IsPrefix(log, ExpectedLog(TableEntries))
        /\ \A k \in DOMAIN log : log[k].pdb_id # NaN
        /\ pc \in {"r_return", "m_copy"} \/ BatchCompleted =>
              log = ExpectedLog(TableEntries)
        /\ pc \in {"d_check", "d_mkdir", "d_urlopen", "d_open", "d_copy", "d_replace", "r_move"} =>
              /\ Len(log) % 2 = 1
              /\ reqs <= 1

\* C9 witness: a completed run over a table with an id column whose first
\* row has no pdb_id and whose second row was fetched and renamed.
C9_Witness ==
    /\ BatchCompleted
    /\ input.hasId
    /\ Len(input.rows) = 2
    /\ input.rows[1].pdb_id = NaN
    /\ input.rows[1].id # input.rows[2].id
    /\ Len(log) = 2
    /\ log[2].id = input.rows[2].id

\* C10 as claimed: a run over one entry with a well-formed code, in which the
\* fetch does not fail, ends as the run with the upper-cased code does: with
\* no error and <output_id>.pdb holding the body of the upper-cased code.
C10_CaseInsensitiveBatch ==
    (top = "main" /\ input.isCsv /\ pc = "done" /\ exc.at # "download"
        /\ Len(TableEntries) = 1 /\ ~Malformed(TableEntries[1].pdb_id)) =>
        /\ exc = NoExc
        /\ HoldsBodyOfRow(TableEntries, 1)

====
